---- MODULE Spec2Model ----
(***************************************************************************)
(* Keephy search service: the Express handlers of src/src/index.js and the *)
(* SearchIndex model of src/src/models/SearchIndex.js, over a MongoDB      *)
(* collection modelled as a set of documents with unique _id.              *)
(*                                                                         *)
(* A JavaScript object (a request body, a query string, an options bag) is *)
(* a TLA+ record whose DOMAIN is the set of keys the object carries, so    *)
(* destructuring, defaults and the spread operator are modelled as they    *)
(* act on keys.  metadata.rating is flattened to the key "rating".         *)
(***************************************************************************)
EXTENDS Integers, Sequences, FiniteSets, TLC

\* ---------------------------------------------------------------- bounds
MaxDocs == 2
MaxTime == 1
MaxBatch == 2

\* ------------------------------------------------------------- constants
\* JavaScript undefined, for string-valued parameters
Undefined == "undefined"
\* a document without metadata.rating; BSON orders a missing value first
NoRating == 0
MinRating == 1
MaxRating == 5
DefaultLimit == 50
DefaultListLimit == 20
DefaultMinRating == 4
DefaultSuggestLimit == 10
WeightTitle == 10
WeightContent == 5
WeightTags == 8

ContentTypes ==
    {"submission", "form", "staff", "franchise", "business", "discount",
     "notification", "report"}

Ids == 1..MaxDocs
Times == 0..MaxTime
\* a caller-supplied timestamp that is never the server's clock
FarFuture == MaxTime + 1

VARIABLES store, now, req, resp

vars == <<store, now, req, resp>>

\* ------------------------------------------------------------ JS objects
Has(o, k) == k \in DOMAIN o

Get(o, k, d) == IF k \in DOMAIN o THEN o[k] ELSE d

\* { ...o, [k]: v }
SpreadThen(o, k, v) ==
    [x \in (DOMAIN o) \cup {k} |-> IF x = k THEN v ELSE o[x]]

\* { [k]: v, ...o }
ThenSpread(o, k, v) ==
    [x \in (DOMAIN o) \cup {k} |-> IF x \in DOMAIN o THEN o[x] ELSE v]

Pick(o, ks) == [x \in (DOMAIN o) \cap ks |-> o[x]]

Range(s) == {s[i] : i \in 1..Len(s)}

\* ------------------------------------------------------------ the schema
DocFields ==
    {"_id", "businessId", "contentType", "title", "content", "tags",
     "rating", "isActive", "indexedAt"}

\* new SearchIndex(obj): strict schema, defaults for the keys obj lacks
NewDoc(obj, id, t) ==
    [_id         |-> Get(obj, "_id", id),
     businessId  |-> Get(obj, "businessId", Undefined),
     contentType |-> Get(obj, "contentType", Undefined),
     title       |-> Get(obj, "title", Undefined),
     content     |-> Get(obj, "content", Undefined),
     tags        |-> Get(obj, "tags", <<>>),
     rating      |-> Get(obj, "rating", NoRating),
     isActive    |-> Get(obj, "isActive", TRUE),
     indexedAt   |-> Get(obj, "indexedAt", t)]

\* the schema's validators: required paths, the contentType enum, the rating range
Validate(doc) ==
    /\ doc.businessId # Undefined
    /\ doc.contentType \in ContentTypes
    /\ doc.title # Undefined
    /\ doc.content # Undefined
    /\ (doc.rating = NoRating \/ doc.rating \in MinRating..MaxRating)

\* pre('save'): this.indexedAt = new Date()
preSave(doc, t) == [doc EXCEPT !.indexedAt = t]

StoreIds(s) == {d._id : d \in s}

DocById(s, id) == CHOOSE d \in s : d._id = id

\* a generated ObjectId: one no stored document and no document of the batch carries
FreshId(used) ==
    IF Ids \subseteq used THEN MaxDocs + 1
    ELSE CHOOSE i \in Ids : i \notin used /\ \A j \in Ids : j < i => j \in used

\* document.save(): validate, run the pre-save hook, write the document
SaveOutcome(s, doc, t) ==
    IF Validate(doc)
    THEN [ok |-> TRUE, doc |-> preSave(doc, t),
          store |-> {d \in s : d._id # doc._id} \cup {preSave(doc, t)}]
    ELSE [ok |-> FALSE, doc |-> doc, store |-> s]

\* ------------------------------------------------------- JS conversions
\* a JavaScript number: NaN, or an integer
Num(n) == [nan |-> FALSE, val |-> n]

NaN == [nan |-> TRUE, val |-> 0]

\* a string is the sequence of its characters
DigitOf ==
    ("0" :> 0) @@ ("1" :> 1) @@ ("2" :> 2) @@ ("3" :> 3) @@ ("4" :> 4) @@
    ("5" :> 5) @@ ("6" :> 6) @@ ("7" :> 7) @@ ("8" :> 8) @@ ("9" :> 9)

RECURSIVE SkipSpaces(_)
SkipSpaces(s) ==
    IF s # <<>> /\ Head(s) = " " THEN SkipSpaces(Tail(s)) ELSE s

\* the value of the longest prefix of digits of s, after acc
RECURSIVE DigitPrefix(_, _)
DigitPrefix(s, acc) ==
    IF s # <<>> /\ Head(s) \in DOMAIN DigitOf
    THEN DigitPrefix(Tail(s), 10 * acc + DigitOf[Head(s)])
    ELSE acc

\* parseInt(string): leading blanks, an optional sign, then the longest run of
\* digits; NaN when there is no digit
parseInt(str) ==
    LET s    == SkipSpaces(str)
        neg  == s # <<>> /\ Head(s) = "-"
        body == IF s # <<>> /\ Head(s) \in {"-", "+"} THEN Tail(s) ELSE s
    IN  IF body = <<>> \/ Head(body) \notin DOMAIN DigitOf
        THEN NaN
        ELSE Num((IF neg THEN -1 ELSE 1) * DigitPrefix(body, 0))

\* const { k = d } = req.query; parseInt(k)
ParseIntParam(q, k, d) == IF Has(q, k) THEN parseInt(q[k]) ELSE Num(d)

\* !x for a string-valued parameter
Falsy(x) == x \in {Undefined, ""}

\* if (n) for a number
TruthyNum(n) == ~n.nan /\ n.val # 0

\* ------------------------------------------------------ the collection
\* $text: the documents one of whose text-indexed fields holds the word
TextMatch(doc, q) ==
    q = doc.title \/ q = doc.content \/ q \in Range(doc.tags)

\* { $meta: 'textScore' } under the index weights
textScore(doc, q) ==
    (IF q = doc.title THEN WeightTitle ELSE 0)
    + (IF q = doc.content THEN WeightContent ELSE 0)
    + (IF q \in Range(doc.tags) THEN WeightTags ELSE 0)

\* the sort specifications the handlers build; a $meta score sorts descending
SortByScore == <<[key |-> "score", dir |-> -1], [key |-> "indexedAt", dir |-> -1]>>

\* the rating sort with its tie-break ascending
SortByRatingOldestFirst(dir) ==
    <<[key |-> "rating", dir |-> dir], [key |-> "indexedAt", dir |-> 1]>>

SortByRating(dir) == <<[key |-> "rating", dir |-> dir], [key |-> "indexedAt", dir |-> -1]>>

SortByDate(dir) == <<[key |-> "indexedAt", dir |-> dir]>>

UsesScore(sortSpec) == \E i \in 1..Len(sortSpec) : sortSpec[i].key = "score"

SortKey(doc, key, q) ==
    CASE key = "score" -> textScore(doc, q)
      [] key = "rating" -> doc.rating
      [] key = "indexedAt" -> doc.indexedAt

\* a sorts strictly before b under the sort specification
RECURSIVE Precedes(_, _, _, _)
Precedes(a, b, sortSpec, q) ==
    IF sortSpec = <<>>
    THEN FALSE
    ELSE LET ka == Head(sortSpec).dir * SortKey(a, Head(sortSpec).key, q)
             kb == Head(sortSpec).dir * SortKey(b, Head(sortSpec).key, q)
         IN  ka < kb \/ (ka = kb /\ Precedes(a, b, Tail(sortSpec), q))

RECURSIVE Perms(_)
Perms(S) ==
    IF S = {} THEN {<<>>}
    ELSE UNION {{<<x>> \o p : p \in Perms(S \ {x})} : x \in S}

\* cursor.sort(): every order of the matched documents that respects the
\* specification; documents with equal keys come in either order
SortedOrders(S, sortSpec, q) ==
    {p \in Perms(S) :
        \A i, j \in 1..Len(p) : i < j => ~Precedes(p[j], p[i], sortSpec, q)}

\* .limit(limit).skip(offset): the server skips first; limit 0 is no limit and
\* a negative limit is its absolute value
Paginate(p, limit, offset) ==
    LET lim  == IF limit < 0 THEN -limit ELSE limit
        last == IF lim = 0 \/ offset + lim > Len(p) THEN Len(p) ELSE offset + lim
    IN  SubSeq(p, offset + 1, last)

Failed == [ok |-> FALSE, data |-> <<>>]

\* Model.find(filter).sort().limit().skip().lean(): the outcomes the server may
\* give.  It rejects a negative skip; a NaN limit or skip, and a sort on the
\* text score without a $text predicate, are rejected or ignored depending
\* on the server.
FindOutcomes(S, sortSpec, q, limit, offset) ==
    LET mustReject == ~offset.nan /\ offset.val < 0
        mayReject  == limit.nan \/ offset.nan \/ (UsesScore(sortSpec) /\ Falsy(q))
        lim        == IF limit.nan THEN 0 ELSE limit.val
        off        == IF offset.nan THEN 0 ELSE offset.val
    IN  (IF mustReject \/ mayReject THEN {Failed} ELSE {})
        \cup (IF mustReject THEN {}
              ELSE {[ok |-> TRUE, data |-> Paginate(p, lim, off)] :
                        p \in SortedOrders(S, sortSpec, q)})

\* the filter with isActive taken from the caller's options
SearchQueryCallerActive(doc, query, options) ==
    /\ (~Falsy(query) => TextMatch(doc, query))
    /\ (~Falsy(Get(options, "businessId", Undefined))
            => doc.businessId = options.businessId)
    /\ (~Falsy(Get(options, "contentType", Undefined))
            => doc.contentType = options.contentType)
    /\ (Len(Get(options, "tags", <<>>)) > 0
            => Range(doc.tags) \cap Range(options.tags) # {})
    /\ (TruthyNum(Get(options, "rating", NaN)) => doc.rating = options.rating.val)
    /\ doc.isActive = Get(options, "isActive", TRUE)

\* statics.search: the filter object it builds
SearchQuery(doc, query, options) ==
    /\ (~Falsy(query) => TextMatch(doc, query))
    /\ (~Falsy(Get(options, "businessId", Undefined))
            => doc.businessId = options.businessId)
    /\ (~Falsy(Get(options, "contentType", Undefined))
            => doc.contentType = options.contentType)
    /\ (Len(Get(options, "tags", <<>>)) > 0
            => Range(doc.tags) \cap Range(options.tags) # {})
    /\ (TruthyNum(Get(options, "rating", NaN)) => doc.rating = options.rating.val)
    /\ doc.isActive = TRUE

\* statics.search: const { sortBy = { score: { $meta: 'textScore' }, indexedAt: -1 } } = options
SortOf(options) == Get(options, "sortBy", SortByScore)

\* statics.search(query, options)
search(s, query, options) ==
    FindOutcomes({d \in s : SearchQuery(d, query, options)},
                 SortOf(options), query,
                 Get(options, "limit", Num(DefaultLimit)),
                 Get(options, "offset", Num(0)))

\* statics.searchByContentType(contentType, query, options)
searchByContentType(s, contentType, query, options) ==
    search(s, query, SpreadThen(options, "contentType", contentType))

\* statics.getRecentContent(businessId, limit)
getRecentContent(s, businessId, limit) ==
    FindOutcomes({d \in s : d.businessId = businessId /\ d.isActive = TRUE},
                 SortByDate(-1), Undefined, limit, Num(0))

\* statics.getContentByRating(businessId, minRating, limit)
getContentByRating(s, businessId, minRating, limit) ==
    FindOutcomes({d \in s : /\ d.businessId = businessId
                            /\ d.rating # NoRating
                            /\ ~minRating.nan /\ d.rating >= minRating.val
                            /\ d.isActive = TRUE},
                 SortByRating(-1), Undefined, limit, Num(0))

\* the $match/$project/$limit pipeline of GET /api/search/suggestions; the
\* regular expression is matched against whole words
suggestions(s, businessId, q, limit) ==
    IF limit.nan \/ limit.val <= 0
    THEN {Failed}
    ELSE {[ok |-> TRUE, data |-> Paginate(p, limit.val, 0)] :
            p \in Perms({d \in s : /\ d.businessId = businessId
                                   /\ d.isActive = TRUE
                                   /\ (q = d.title \/ q \in Range(d.tags))})}

\* ------------------------------------------------------------- responses
Reply(handler, status, data, queried) ==
    [handler |-> handler, status |-> status, data |-> data, queried |-> queried]

\* res.json(results) on success, the catch block's 500 otherwise
Envelope(handler, outcomes) ==
    {Reply(handler, IF o.ok THEN 200 ELSE 500, o.data, TRUE) : o \in outcomes}

\* ------------------------------------------------------------ the router
\* app.get / app.post / app.put / app.delete in registration order; Express
\* runs the first route whose pattern matches the path
RouteParams == {":contentType", ":id"}

Routes ==
    <<[method |-> "GET", path |-> <<"api", "search">>, handler |-> "search"],
      [method |-> "GET", path |-> <<"api", "search", ":contentType">>,
       handler |-> "searchByContentType"],
      [method |-> "POST", path |-> <<"api", "search", "advanced">>,
       handler |-> "advanced"],
      [method |-> "POST", path |-> <<"api", "search", "index">>,
       handler |-> "index"],
      [method |-> "PUT", path |-> <<"api", "search", "index", ":id">>,
       handler |-> "update"],
      [method |-> "DELETE", path |-> <<"api", "search", "index", ":id">>,
       handler |-> "delete"],
      [method |-> "POST", path |-> <<"api", "search", "index", "bulk">>,
       handler |-> "bulk"],
      [method |-> "GET", path |-> <<"api", "search", "tags", "popular">>,
       handler |-> "popularTags"],
      [method |-> "GET", path |-> <<"api", "search", "stats">>,
       handler |-> "stats"],
      [method |-> "GET", path |-> <<"api", "search", "recent">>,
       handler |-> "recent"],
      [method |-> "GET", path |-> <<"api", "search", "high-rated">>,
       handler |-> "highRated"],
      [method |-> "GET", path |-> <<"api", "search", "suggestions">>,
       handler |-> "suggestions"]>>

RouteMatches(r, method, path) ==
    /\ r.method = method
    /\ Len(r.path) = Len(path)
    /\ \A i \in 1..Len(path) : r.path[i] \in RouteParams \/ r.path[i] = path[i]

\* the handler Express runs for a request; "notFound" is the '*' handler
Route(method, path) ==
    LET hits == {i \in 1..Len(Routes) : RouteMatches(Routes[i], method, path)}
    IN  IF hits = {} THEN "notFound"
        ELSE Routes[CHOOSE i \in hits : \A j \in hits : i <= j].handler

\* -------------------------------------------------------- search handlers
\* GET /api/search: the sort option it resolves
ResolveSort(sortBy, q) ==
    IF sortBy = "relevance" /\ ~Falsy(q) THEN SortByScore
    ELSE IF sortBy = "rating" THEN SortByRating(-1)
    ELSE IF sortBy = "date" THEN SortByDate(-1)
    ELSE SortByDate(-1)

\* the options object of the two GET handlers, without sortBy
QueryOptions(query) ==
    LET base == Pick(query, {"businessId", "contentType"})
        r    == IF Has(query, "rating") /\ query.rating # <<>>
                THEN SpreadThen(base, "rating", parseInt(query.rating))
                ELSE base
    IN  SpreadThen(SpreadThen(r, "limit", ParseIntParam(query, "limit", DefaultLimit)),
                   "offset", ParseIntParam(query, "offset", 0))

\* the guard of GET /api/search
MissingDiscriminator(query) ==
    Falsy(Get(query, "q", Undefined)) /\ Falsy(Get(query, "businessId", Undefined))

\* GET /api/search: { ...options, sortBy: sortOptions }
GlobalSearchOptions(query) ==
    SpreadThen(QueryOptions(query), "sortBy",
               ResolveSort(Get(query, "sortBy", "relevance"),
                           Get(query, "q", Undefined)))

\* GET /api/search
GlobalSearch(s, query) ==
    IF MissingDiscriminator(query)
    THEN {Reply("search", 400, <<>>, FALSE)}
    ELSE Envelope("search",
            search(s, Get(query, "q", Undefined), GlobalSearchOptions(query)))

\* GET /api/search/:contentType: its options object, which has no sortBy
ContentTypeOptions(query) ==
    [k \in DOMAIN QueryOptions(query) \ {"contentType"} |-> QueryOptions(query)[k]]

\* GET /api/search/:contentType
ContentTypeSearch(s, contentType, query) ==
    Envelope("searchByContentType",
        searchByContentType(s, contentType, Get(query, "q", Undefined),
                            ContentTypeOptions(query)))

\* a JSON value of a request body used as a number: a JSON number, or
\* something else, which is no number
JsonNumber(v) == IF v.type = "number" THEN Num(v.val) ELSE NaN

\* POST /api/search/advanced: the sort option it resolves
ResolveAdvancedSort(sort, query) ==
    LET field == Get(sort, "field", Undefined)
        dir   == IF Get(sort, "order", Undefined) = "asc" THEN 1 ELSE -1
    IN  IF field = "relevance" /\ ~Falsy(query) THEN SortByScore
        ELSE IF field = "rating" THEN SortByRating(dir)
        ELSE IF field = "date" THEN SortByDate(dir)
        ELSE SortByDate(-1)

\* POST /api/search/advanced: { ...searchOptions, sortBy: sortOptions }
AdvancedOptions(body) ==
    LET query      == Get(body, "query", Undefined)
        filters    == Get(body, "filters", [x \in {} |-> Undefined])
        pagination == Get(body, "pagination",
                          [limit  |-> [type |-> "number", val |-> DefaultLimit],
                           offset |-> [type |-> "number", val |-> 0]])
        sort       == Get(body, "sort", [field |-> "indexedAt", order |-> "desc"])
        paged      == [k \in (DOMAIN filters \ {"limit", "offset"})
                               \cup (DOMAIN pagination \cap {"limit", "offset"}) |->
                        IF k \in {"limit", "offset"}
                        THEN JsonNumber(pagination[k]) ELSE filters[k]]
    IN  SpreadThen(paged, "sortBy", ResolveAdvancedSort(sort, query))

\* POST /api/search/advanced
AdvancedSearch(s, body) ==
    Envelope("advanced",
        search(s, Get(body, "query", Undefined), AdvancedOptions(body)))

\* GET /api/search/recent
RecentContent(s, query) ==
    IF Falsy(Get(query, "businessId", Undefined))
    THEN {Reply("recent", 400, <<>>, FALSE)}
    ELSE Envelope("recent",
            getRecentContent(s, query.businessId,
                             ParseIntParam(query, "limit", DefaultListLimit)))

\* GET /api/search/high-rated
HighRatedContent(s, query) ==
    IF Falsy(Get(query, "businessId", Undefined))
    THEN {Reply("highRated", 400, <<>>, FALSE)}
    ELSE Envelope("highRated",
            getContentByRating(s, query.businessId,
                               ParseIntParam(query, "minRating", DefaultMinRating),
                               ParseIntParam(query, "limit", DefaultListLimit)))

\* GET /api/search/suggestions; a query word has at least two characters, so
\* the handler's short-query test is its test for a missing q
Suggestions(s, query) ==
    IF Falsy(Get(query, "q", Undefined))
    THEN {Reply("suggestions", 200, <<>>, FALSE)}
    ELSE Envelope("suggestions",
            suggestions(s, Get(query, "businessId", Undefined), query.q,
                        ParseIntParam(query, "limit", DefaultSuggestLimit)))

\* a GET of /api/search/<segment>, answered by the handler the router picks
SegmentRequest(s, segment, query) ==
    LET h == Route("GET", <<"api", "search", segment>>)
    IN  CASE h = "searchByContentType" -> ContentTypeSearch(s, segment, query)
          [] h = "recent" -> RecentContent(s, query)
          [] h = "highRated" -> HighRatedContent(s, query)
          [] h = "suggestions" -> Suggestions(s, query)
          [] OTHER -> {Reply("notFound", 404, <<>>, FALSE)}

\* ------------------------------------------------------ indexing handlers
\* POST /api/search/index
IndexContent(s, body, t) ==
    LET fields == Pick(body, {"businessId", "contentType", "title", "content",
                              "tags", "rating"})
        out    == SaveOutcome(s, NewDoc(fields, FreshId(StoreIds(s)), t), t)
    IN  [store |-> out.store,
         resp  |-> IF out.ok THEN Reply("index", 201, <<out.doc>>, TRUE)
                   ELSE Reply("index", 500, <<>>, TRUE)]

\* Model.findByIdAndUpdate(id, update, { new: true }): the update's schema
\* paths are set; no validator runs
findByIdAndUpdate(doc, update) ==
    [k \in DocFields |->
        IF k # "_id" /\ k \in DOMAIN update THEN update[k] ELSE doc[k]]

\* PUT /api/search/index/:id
UpdateIndex(s, id, updateData, t) ==
    IF id \notin StoreIds(s)
    THEN [store |-> s, resp |-> Reply("update", 404, <<>>, TRUE)]
    ELSE LET doc == findByIdAndUpdate(DocById(s, id),
                                      SpreadThen(updateData, "indexedAt", t))
         IN  [store |-> (s \ {DocById(s, id)}) \cup {doc},
              resp  |-> Reply("update", 200, <<doc>>, TRUE)]

\* DELETE /api/search/index/:id
DeleteIndex(s, id) ==
    IF id \notin StoreIds(s)
    THEN [store |-> s, resp |-> Reply("delete", 404, <<>>, TRUE)]
    ELSE [store |-> s \ {DocById(s, id)},
          resp  |-> Reply("delete", 200, <<>>, TRUE)]

\* the stamp written before the spread, so that the item's own value wins
StampItemFirst(item, t) == ThenSpread(item, "indexedAt", t)

\* items.map(item => ({ ...item, indexedAt: new Date() }))
StampItem(item, t) == SpreadThen(item, "indexedAt", t)

\* the documents Model.insertMany builds, each with its own _id
RECURSIVE BuildDocs(_, _, _)
BuildDocs(objs, used, t) ==
    IF objs = <<>> THEN <<>>
    ELSE LET doc == NewDoc(Head(objs), FreshId(used), t)
         IN  <<doc>> \o BuildDocs(Tail(objs), used \cup {doc._id}, t)

\* the server's ordered insert: it stops at the first duplicate _id and keeps
\* what it wrote before
RECURSIVE InsertOrdered(_, _, _)
InsertOrdered(s, docs, done) ==
    IF docs = <<>> THEN [ok |-> TRUE, store |-> s, data |-> done]
    ELSE IF Head(docs)._id \in StoreIds(s)
    THEN [ok |-> FALSE, store |-> s, data |-> done]
    ELSE InsertOrdered(s \cup {Head(docs)}, Tail(docs), Append(done, Head(docs)))

\* Model.insertMany(objs): every document is validated before any is written
insertMany(s, objs, t) ==
    LET supplied == {objs[i]._id : i \in {j \in 1..Len(objs) : Has(objs[j], "_id")}}
        docs     == BuildDocs(objs, StoreIds(s) \cup supplied, t)
    IN  IF \E i \in 1..Len(docs) : ~Validate(docs[i])
        THEN [ok |-> FALSE, store |-> s, data |-> <<>>]
        ELSE InsertOrdered(s, docs, <<>>)

\* the guard without its length test
IsArrayOnly(items) == items.type = "array"

\* Array.isArray(items) && items.length !== 0
IsNonEmptyArray(items) == items.type = "array" /\ Len(items.val) # 0

\* POST /api/search/index/bulk
BulkIndex(s, body, t) ==
    LET items == Get(body, "items", [type |-> "undefined"])
    IN  IF ~IsNonEmptyArray(items)
        THEN [store |-> s, resp |-> Reply("bulk", 400, <<>>, FALSE)]
        ELSE LET out == insertMany(s, [i \in 1..Len(items.val) |->
                                            StampItem(items.val[i], t)], t)
             IN  [store |-> out.store,
                  resp  |-> IF out.ok THEN Reply("bulk", 201, out.data, TRUE)
                            ELSE Reply("bulk", 500, <<>>, TRUE)]

\* ------------------------------------------------------ document methods
\* methods.updateContent(newContent)
updateContent(s, doc, newContent, t) ==
    SaveOutcome(s, [doc EXCEPT !.content = newContent, !.indexedAt = t], t)

\* addTag without its includes() test
addTagAlways(s, doc, tag, t) ==
    SaveOutcome(s, [doc EXCEPT !.tags = Append(doc.tags, tag)], t)

\* methods.addTag(tag)
addTag(s, doc, tag, t) ==
    SaveOutcome(s, IF tag \notin Range(doc.tags)
                   THEN [doc EXCEPT !.tags = Append(doc.tags, tag)]
                   ELSE doc, t)

\* methods.removeTag(tag)
removeTag(s, doc, tag, t) ==
    SaveOutcome(s, [doc EXCEPT !.tags = SelectSeq(doc.tags, LAMBDA x : x # tag)], t)

\* ----------------------------------------------------------------- inputs
EmptyObject == [x \in {} |-> Undefined]

JsonInt(n) == [type |-> "number", val |-> n]

\* query strings of GET /api/search
SearchQueries ==
    {EmptyObject,
     [isActive |-> "false"],
     [q |-> "a"],
     [businessId |-> "B1"],
     [businessId |-> "B1", sortBy |-> "rating"],
     [q |-> "a", sortBy |-> "rating", isActive |-> "false"],
     [businessId |-> "B1", sortBy |-> "date", limit |-> <<"1">>],
     [businessId |-> "B1", limit |-> <<"x">>],
     [businessId |-> "B1", sortBy |-> "rating", offset |-> <<"1", "x">>],
     [businessId |-> "B2", contentType |-> "form", rating |-> <<"5">>]}

\* GET /api/search/<segment>
Segments == {"submission", "recent", "high-rated", "suggestions"}

SegmentQueries ==
    {EmptyObject,
     [businessId |-> "B1"],
     [q |-> "a"],
     [businessId |-> "B1", limit |-> <<"x">>]}

\* bodies of POST /api/search/advanced
AdvancedBodies ==
    {EmptyObject,
     [query |-> "a"],
     [query |-> "a", sort |-> [field |-> "relevance"]],
     [filters |-> [businessId |-> "B1"], sort |-> [field |-> "rating", order |-> "asc"]],
     [filters |-> [businessId |-> "B1", isActive |-> FALSE], sort |-> [field |-> "rating"]],
     [filters |-> [businessId |-> "B1"], pagination |-> [limit |-> [type |-> "string"]]],
     [query |-> "a", pagination |-> [limit |-> JsonInt(1), offset |-> JsonInt(1)],
      sort |-> [field |-> "date", order |-> "asc"]]}

\* bodies of POST /api/search/index
IndexBodies ==
    {[businessId |-> "B1", contentType |-> "submission", title |-> "a",
      content |-> "c1", rating |-> 5],
     [businessId |-> "B1", contentType |-> "submission", title |-> "b",
      content |-> "c1", rating |-> 3, isActive |-> FALSE, indexedAt |-> FarFuture],
     [businessId |-> "B1", contentType |-> "bogus", title |-> "a", content |-> "c1"],
     [contentType |-> "submission", title |-> "a", content |-> "c1"]}

\* items of POST /api/search/index/bulk
BulkItems ==
    {[businessId |-> "B1", contentType |-> "submission", title |-> "a",
      content |-> "c1", rating |-> 5, indexedAt |-> FarFuture],
     [_id |-> 1, businessId |-> "B2", contentType |-> "form", title |-> "b",
      content |-> "c1", isActive |-> FALSE],
     [businessId |-> "B1", contentType |-> "bogus", title |-> "a", content |-> "c1"]}

Batches == UNION {[1..n -> BulkItems] : n \in 0..MaxBatch}

BulkBodies ==
    {EmptyObject, [items |-> [type |-> "string"]]}
    \cup {[items |-> [type |-> "array", val |-> b]] : b \in Batches}

\* bodies of PUT /api/search/index/:id
UpdateBodies ==
    {[isActive |-> FALSE, indexedAt |-> FarFuture],
     [contentType |-> "bogus"]}

\* the inputs of the library specification
DocIndexBodies ==
    {[businessId |-> "B1", contentType |-> "submission", title |-> "a",
      content |-> "c1", tags |-> <<"a">>, indexedAt |-> FarFuture],
     [businessId |-> "B1", contentType |-> "bogus", title |-> "a", content |-> "c1"]}

DocBulkBodies ==
    {[items |-> [type |-> "array", val |->
        <<[businessId |-> "B1", contentType |-> "submission", title |-> "a",
           content |-> "c1", indexedAt |-> FarFuture]>>]]}

DocUpdateBodies == {[contentType |-> "bogus", indexedAt |-> FarFuture]}

Tags == {"a", "b"}

Contents == {"c1", "c2"}

\* ----------------------------------------------------------------- system
NoRequest == [method |-> "NONE"]

\* no request is being handled
Idle == Reply("none", 0, <<>>, FALSE)

Init ==
    /\ store = {}
    /\ now = 0
    /\ req = NoRequest
    /\ resp = Idle

\* the server's clock advances
Tick ==
    /\ now < MaxTime
    /\ now' = now + 1
    /\ UNCHANGED <<store, req, resp>>

\* the response is sent; the server takes the next request
Respond ==
    /\ resp # Idle
    /\ req' = NoRequest
    /\ resp' = Idle
    /\ UNCHANGED <<store, now>>

GetSearch ==
    /\ resp = Idle
    /\ \E query \in SearchQueries :
        \E r \in GlobalSearch(store, query) :
            /\ req' = [method |-> "GET", path |-> <<"api", "search">>, query |-> query]
            /\ resp' = r
            /\ UNCHANGED <<store, now>>

GetSegment ==
    /\ resp = Idle
    /\ \E segment \in Segments, query \in SegmentQueries :
        \E r \in SegmentRequest(store, segment, query) :
            /\ req' = [method |-> "GET", path |-> <<"api", "search", segment>>,
                       query |-> query]
            /\ resp' = r
            /\ UNCHANGED <<store, now>>

PostAdvanced ==
    /\ resp = Idle
    /\ \E body \in AdvancedBodies :
        \E r \in AdvancedSearch(store, body) :
            /\ req' = [method |-> "POST", path |-> <<"api", "search", "advanced">>,
                       body |-> body]
            /\ resp' = r
            /\ UNCHANGED <<store, now>>

PostIndex(bodies) ==
    /\ resp = Idle
    /\ \E body \in bodies :
        /\ Cardinality(store) < MaxDocs
        /\ req' = [method |-> "POST", path |-> <<"api", "search", "index">>,
                   body |-> body]
        /\ store' = IndexContent(store, body, now).store
        /\ resp' = IndexContent(store, body, now).resp
        /\ UNCHANGED now

PutIndex(bodies) ==
    /\ resp = Idle
    /\ \E id \in Ids, body \in bodies :
        /\ req' = [method |-> "PUT", path |-> <<"api", "search", "index">>,
                   id |-> id, body |-> body]
        /\ store' = UpdateIndex(store, id, body, now).store
        /\ resp' = UpdateIndex(store, id, body, now).resp
        /\ UNCHANGED now

DeleteById ==
    /\ resp = Idle
    /\ \E id \in Ids :
        /\ req' = [method |-> "DELETE", path |-> <<"api", "search", "index">>,
                   id |-> id]
        /\ store' = DeleteIndex(store, id).store
        /\ resp' = DeleteIndex(store, id).resp
        /\ UNCHANGED now

PostBulk(bodies) ==
    /\ resp = Idle
    /\ \E body \in bodies :
        /\ (Has(body, "items") /\ body.items.type = "array"
                => Cardinality(store) + Len(body.items.val) <= MaxDocs)
        /\ req' = [method |-> "POST", path |-> <<"api", "search", "index", "bulk">>,
                   body |-> body]
        /\ store' = BulkIndex(store, body, now).store
        /\ resp' = BulkIndex(store, body, now).resp
        /\ UNCHANGED now

\* the service: the HTTP handlers and the clock
Next ==
    \/ Tick
    \/ Respond
    \/ GetSearch
    \/ GetSegment
    \/ PostAdvanced
    \/ PostIndex(IndexBodies)
    \/ PutIndex(UpdateBodies)
    \/ DeleteById
    \/ PostBulk(BulkBodies)

Spec == Init /\ [][Next]_vars

\* a caller of the model's document methods on a stored document
CallMethod(name, id, arg, out) ==
    /\ req' = [method |-> name, id |-> id, arg |-> arg]
    /\ store' = out.store
    /\ resp' = Reply(name, IF out.ok THEN 200 ELSE 500,
                     IF out.ok THEN <<out.doc>> ELSE <<>>, TRUE)
    /\ UNCHANGED now

CallUpdateContent ==
    /\ resp = Idle
    /\ \E d \in store, c \in Contents :
        CallMethod("updateContent", d._id, c, updateContent(store, d, c, now))

CallAddTag ==
    /\ resp = Idle
    /\ \E d \in store, tag \in Tags :
        CallMethod("addTag", d._id, tag, addTag(store, d, tag, now))

CallRemoveTag ==
    /\ resp = Idle
    /\ \E d \in store, tag \in Tags :
        CallMethod("removeTag", d._id, tag, removeTag(store, d, tag, now))

\* the model used as a library: the indexing handlers and the document methods
NextDoc ==
    \/ Tick
    \/ Respond
    \/ PostIndex(DocIndexBodies)
    \/ PutIndex(DocUpdateBodies)
    \/ DeleteById
    \/ PostBulk(DocBulkBodies)
    \/ CallUpdateContent
    \/ CallAddTag
    \/ CallRemoveTag

SpecDoc == Init /\ [][NextDoc]_vars

\* ----------------------------------------------------------------- claims
SearchPath == <<"api", "search">>

AdvancedPath == <<"api", "search", "advanced">>

BulkPath == <<"api", "search", "index", "bulk">>

IsGlobalSearch(r) == r.method = "GET" /\ r.path = SearchPath

IsContentTypeSearch(r) == r.method = "GET" /\ r.path = <<"api", "search", "submission">>

IsAdvancedSearch(r) == r.method = "POST" /\ r.path = AdvancedPath

IsBulk(r) == r.method = "POST" /\ r.path = BulkPath

IsSearchCall(r) == IsGlobalSearch(r) \/ IsContentTypeSearch(r) \/ IsAdvancedSearch(r)

\* the free-text query and the businessId a search call supplies
CallQuery(r) ==
    IF IsAdvancedSearch(r) THEN Get(r.body, "query", Undefined)
    ELSE Get(r.query, "q", Undefined)

CallBusinessId(r) ==
    IF IsAdvancedSearch(r)
    THEN Get(Get(r.body, "filters", EmptyObject), "businessId", Undefined)
    ELSE Get(r.query, "businessId", Undefined)

SearchHandlers == {"search", "searchByContentType", "advanced"}

ListingHandlers == SearchHandlers \cup {"recent", "highRated", "suggestions"}

Businesses == {"B1", "B2"}

AllActive(data) == \A i \in 1..Len(data) : data[i].isActive = TRUE

\* C1: every search call (GET /api/search, GET /api/search/:contentType, POST
\* /api/search/advanced) that supplies neither a free-text query nor a
\* businessId is answered 400, and no query is issued to storage for it.
C1_MissingDiscriminatorRejected ==
    (IsSearchCall(req) /\ Falsy(CallQuery(req)) /\ Falsy(CallBusinessId(req)))
        => (resp.status = 400 /\ ~resp.queried)

\* C2: every record a search or listing operation returns has isActive = TRUE,
\* whatever filters the caller passes: the records of the response being sent,
\* and the records getRecentContent, getContentByRating and the suggestions
\* pipeline return in the current state of the collection.
C2_ResultsActive ==
    /\ (resp.handler \in ListingHandlers => AllActive(resp.data))
    /\ \A b \in Businesses :
        \A o \in getRecentContent(store, b, Num(DefaultListLimit))
                 \cup getContentByRating(store, b, Num(MinRating), Num(DefaultListLimit))
                 \cup suggestions(store, b, "a", Num(DefaultSuggestLimit))
                 \cup suggestions(store, b, "b", Num(DefaultSuggestLimit)) :
            AllActive(o.data)

\* an advanced search that asks for inactive records is answered with records,
\* while an inactive record of the same business is stored
C2_Witness ==
    /\ IsAdvancedSearch(req)
    /\ Has(Get(req.body, "filters", EmptyObject), "isActive")
    /\ resp.status = 200
    /\ Len(resp.data) > 0
    /\ \E d \in store : ~d.isActive /\ d.businessId = CallBusinessId(req)

\* the direction a search call with sort strategy 'rating' asks for
RatingCall(r) ==
    \/ IsGlobalSearch(r) /\ Get(r.query, "sortBy", "relevance") = "rating"
    \/ IsAdvancedSearch(r)
       /\ Get(Get(r.body, "sort", EmptyObject), "field", Undefined) = "rating"

AscendingCall(r) ==
    IsAdvancedSearch(r) /\ Get(r.body.sort, "order", Undefined) = "asc"

EmptyOrNoList(body) ==
    \/ ~Has(body, "items")
    \/ body.items.type # "array"
    \/ Len(body.items.val) = 0

\* C4: a bulk insert whose items value is an empty list or is no list is
\* answered 400, storage is not invoked, and the stored records are the same
\* after the call as before it.
C4_InvalidBulkRejected ==
    [][(resp = Idle /\ resp' # Idle /\ IsBulk(req')
            /\ EmptyOrNoList(req'.body))
        => (resp'.status = 400 /\ ~resp'.queried /\ store' = store)]_vars

\* a bulk insert of an empty list rejected while records are stored
C4_Witness ==
    /\ IsBulk(req)
    /\ Has(req.body, "items")
    /\ req.body.items.type = "array"
    /\ Len(req.body.items.val) = 0
    /\ resp.status = 400
    /\ store # {}

\* C5: a bulk insert is all-or-nothing: it reports success and every item of
\* the batch is stored, or it reports failure and the stored records are the
\* ones stored before the call.
C5_BulkAllOrNothing ==
    [][(resp = Idle /\ resp' # Idle /\ IsBulk(req'))
        => \/ /\ resp'.status = 201
              /\ Len(resp'.data) = Len(req'.body.items.val)
              /\ store' = store \cup Range(resp'.data)
              /\ Cardinality(store') = Cardinality(store) + Len(resp'.data)
           \/ /\ resp'.status # 201
              /\ store' = store]_vars

\* C6: right after a record is created through POST /api/search/index, a GET
\* of /api/search/recent for the record's businessId returns a result set
\* that contains the record, with its title and contentType.
C6_CreatedIsListed ==
    (resp.handler = "index" /\ resp.status = 201) =>
        \A r \in SegmentRequest(store, "recent",
                                [businessId |-> resp.data[1].businessId]) :
            /\ r.status = 200
            /\ \E i \in 1..Len(r.data) :
                /\ r.data[i]._id = resp.data[1]._id
                /\ r.data[i].title = resp.data[1].title
                /\ r.data[i].contentType = resp.data[1].contentType

Count(seq, x) == Cardinality({i \in 1..Len(seq) : seq[i] = x})

IsMethodCall(r, name) == r.method = name

\* C7: addTag is idempotent: on a record whose tags hold the tag it leaves the
\* tag sequence as it is, and on a record whose tags do not hold it the tag
\* occurs exactly once afterwards.
C7_AddTagIdempotent ==
    [][(resp = Idle /\ resp' # Idle /\ IsMethodCall(req', "addTag")
            /\ resp'.status = 200)
        => LET old == DocById(store, req'.id).tags
               new == DocById(store', req'.id).tags
           IN  /\ (req'.arg \in Range(old) => new = old)
               /\ (req'.arg \notin Range(old) => Count(new, req'.arg) = 1)
               /\ \A x \in Range(old) : Count(new, x) = Count(old, x)]_vars

\* addTag has returned on a record that already held the tag, before another
C7_Witness ==
    /\ IsMethodCall(req, "addTag")
    /\ resp.status = 200
    /\ Len(resp.data[1].tags) = 2
    /\ resp.data[1].tags[1] = req.arg

WriteHandlers == {"index", "bulk", "update", "updateContent", "addTag", "removeTag"}

\* C8: after each successful index-create, bulk insert, PUT update,
\* updateContent, addTag and removeTag, every record the operation wrote is
\* stored with indexedAt equal to the time of the operation, which is not
\* earlier than the record's indexedAt before it, whatever indexedAt the
\* caller supplied.
C8_IndexedAtRefreshed ==
    [][(resp = Idle /\ resp' # Idle /\ resp'.handler \in WriteHandlers
            /\ resp'.status \in {200, 201})
        => /\ Len(resp'.data) > 0
           /\ \A i \in 1..Len(resp'.data) :
                LET d == resp'.data[i]
                IN  /\ d \in store'
                    /\ d.indexedAt = now
                    /\ (d._id \in StoreIds(store)
                            => DocById(store, d._id).indexedAt <= d.indexedAt)]_vars

\* a bulk insert whose item carried its own indexedAt has succeeded, after
\* the clock advanced
C8_Witness ==
    /\ IsBulk(req)
    /\ resp.status = 201
    /\ Has(req.body.items.val[1], "indexedAt")
    /\ now > 0

\* C9: every stored record's contentType is one of the enumeration's values.
C9_ContentTypeInEnum == \A d \in store : d.contentType \in ContentTypes

\* C10: a GET /api/search whose limit or offset does not parse as an integer
\* is answered 400.
C10_MalformedPageRejected ==
    (IsGlobalSearch(req)
        /\ \/ Has(req.query, "limit") /\ parseInt(req.query.limit).nan
           \/ Has(req.query, "offset") /\ parseInt(req.query.offset).nan)
        => resp.status = 400

\* the sort specification a search call passes to storage
SortPassed(r) ==
    IF IsAdvancedSearch(r) THEN SortOf(AdvancedOptions(r.body))
    ELSE IF IsGlobalSearch(r) THEN SortOf(GlobalSearchOptions(r.query))
    ELSE SortOf(ContentTypeOptions(r.query))

\* the call names a sort strategy of its own
ExplicitSort(r) ==
    IF IsAdvancedSearch(r) THEN Has(r.body, "sort") ELSE Has(r.query, "sortBy")

\* C11: a search call (GET /api/search, GET /api/search/:contentType, POST
\* /api/search/advanced) that supplies no free-text query passes storage a
\* sort by indexedAt or rating that does not use the text score, and a call
\* with a query and no sort strategy of its own sorts by the text score
\* descending, then indexedAt descending.
C11_NoRelevanceWithoutQuery ==
    (IsSearchCall(req) /\ resp.queried) =>
        /\ (Falsy(CallQuery(req)) => ~UsesScore(SortPassed(req)))
        /\ (~Falsy(CallQuery(req)) /\ ~ExplicitSort(req)
                => SortPassed(req) = SortByScore)

====
